---- MODULE Spec2Model ----
(***************************************************************************)
(* A model of the superstream producer interceptor                         *)
(* (confluent_kafka/superstream/producer_interceptor.py) and of the        *)
(* helpers of confluent_kafka/superstream/utils.py it calls.               *)
(*                                                                         *)
(* A produce call is an ordered argument tuple plus a named-argument       *)
(* mapping.  Every Python value is modelled by a record of one shape,      *)
(*   [t |-> type tag, s |-> text, n |-> number, h |-> header pairs],       *)
(* so that any two values can be compared.                                 *)
(***************************************************************************)
EXTENDS Integers, Sequences, FiniteSets, TLC

(***************************************************************************)
(* Bounds of the model.                                                    *)
(***************************************************************************)
\* partition ids range over 0..MaxPartition
MaxPartition == 1
\* the Connection's configured learning_factor (threshold of the learner)
LearningFactor == 1
\* producer threads of the concurrent specification
NThreads == 2
\* messages with a wrapped callback the application leaves unreported
\* before it calls produce again
MaxInflight == 1
\* the most event loops created in a run
MaxLoops == 4

(***************************************************************************)
(* Positional slots of produce(topic, value, key, partition, on_delivery,  *)
(* timestamp, headers), 0-based as in the source.                          *)
(***************************************************************************)
topic_idx == 0
value_idx == 1
partition_idx == 3
on_delivery_idx == 4
headers_index == 6

\* the parameter names of the wrapped produce, in positional order
ParamNames == <<"topic", "value", "key", "partition", "on_delivery",
                "timestamp", "headers">>

(***************************************************************************)
(* Python values.                                                          *)
(***************************************************************************)
None == [t |-> "none", s |-> "", n |-> 0, h |-> <<>>]
Str(x) == [t |-> "str", s |-> x, n |-> 0, h |-> <<>>]
Bytes(x) == [t |-> "bytes", s |-> x, n |-> 0, h |-> <<>>]
IntVal(i) == [t |-> "int", s |-> "", n |-> i, h |-> <<>>]
\* a dict message value, identified by the object it denotes
DictMsg(x) == [t |-> "dict", s |-> x, n |-> 0, h |-> <<>>]
\* a caller's delivery callback
Callback(x) == [t |-> "callback", s |-> x, n |-> 0, h |-> <<>>]
\* headers as a dict: its items in insertion order, keys unique
HDict(items) == [t |-> "hdict", s |-> "", n |-> 0, h |-> items]
\* headers as a list of (key, value) pairs
HList(items) == [t |-> "hlist", s |-> "", n |-> 0, h |-> items]

IsNone(v) == v.t = "none"

\* args[i] for a 0-based Python index i
Arg(args, i) == args[i + 1]
\* kwargs.get(k): the entry, or None when k is not a key
KwGet(kwargs, k) == IF k \in DOMAIN kwargs THEN kwargs[k] ELSE None
\* the mapping kwargs with kwargs[k] = v assigned (the key is added when new)
KwSet(kwargs, k, v) ==
  [x \in (DOMAIN kwargs) \cup {k} |-> IF x = k THEN v ELSE kwargs[x]]

(***************************************************************************)
(* utils._try_convert_to_json                                              *)
(***************************************************************************)
\* the texts json.loads accepts, among the texts of the model
JsonTexts == {"{\"id\": 1}", "null"}
JsonLoadsOk(x) == x \in JsonTexts
\* the values json.dumps serialises (None and dicts, among the model's values)
JsonDumpsOk(v) == v.t \in {"none", "dict"}
JsonDumps(v) ==
  CASE v.t = "none" -> "null"
    [] v.t = "dict" /\ v.s = "id=1" -> "{\"id\": 1}"
    [] OTHER -> "{}"

TryConvertToJson(input) ==
  IF input.t = "str"
  THEN IF JsonLoadsOk(input.s) THEN input ELSE None
  ELSE IF JsonDumpsOk(input) THEN Str(JsonDumps(input)) ELSE None

\* json_msg.encode("utf-8")
EncodeUtf8(json_msg) == Bytes(json_msg.s)

(***************************************************************************)
(* The produce calls of the model: every valid call shape, each parameter  *)
(* given positionally, by name, or (topic excepted) not at all, and never  *)
(* both ways.                                                              *)
(***************************************************************************)
Topics == {"orders"}
Partitions == 0..MaxPartition
JsonText == "{\"id\": 1}"
BadText == "not json {{{"
Cb1 == Callback("cb1")
Headers1 == <<<<"a", "1">>>>

ParamDomain(name) ==
  CASE name = "topic" -> {Str(x) : x \in Topics}
    [] name = "value" -> {Str(JsonText), Str(BadText), DictMsg("id=1"), Bytes("raw")}
    [] name = "key" -> {Str("k")}
    [] name = "partition" -> {IntVal(i) : i \in Partitions}
    [] name = "on_delivery" -> {Cb1, None}
    [] name = "timestamp" -> {IntVal(0)}
    [] name = "headers" -> {None, HDict(Headers1), HList(Headers1)}

\* the parameters a call of the model may pass by name
NamedParams == {"topic", "value", "partition", "on_delivery", "headers"}

RECURSIVE PositionalArgs(_)
\* the argument tuples of length n
PositionalArgs(n) ==
  IF n = 0 THEN {<<>>}
  ELSE {Append(p, v) : p \in PositionalArgs(n - 1), v \in ParamDomain(ParamNames[n])}

RECURSIVE NamedArgs(_)
\* the named-argument mappings over the parameters ParamNames[i..7]
NamedArgs(i) ==
  IF i > Len(ParamNames) THEN {<<>>}
  ELSE LET name == ParamNames[i]
           rest == NamedArgs(i + 1)
           with == IF name \in NamedParams
                   THEN {KwSet(kw, name, v) : kw \in rest, v \in ParamDomain(name)}
                   ELSE {}
       IN  IF name = "topic" THEN with ELSE rest \cup with

Calls ==
  UNION {{[args |-> a, kwargs |-> kw] : a \in PositionalArgs(n), kw \in NamedArgs(n + 1)}
         : n \in 0..Len(ParamNames)}

(***************************************************************************)
(* The rewriting of the call's arguments, produce lines 70-112.            *)
(***************************************************************************)
\* ReplaceAt writing one slot too far: args[:idx + 1] + (v,) + args[idx + 2:]
ReplaceAtNextSlot(args, idx, v) ==
  IF idx + 1 < Len(args)
  THEN SubSeq(args, 1, idx + 1) \o <<v>> \o SubSeq(args, idx + 3, Len(args))
  ELSE SubSeq(args, 1, idx) \o <<v>>

\* ReplaceAt keeping the replaced element: args[:idx] + (v,) + args[idx:]
ReplaceAtInsert(args, idx, v) ==
  SubSeq(args, 1, idx) \o <<v>> \o SubSeq(args, idx + 1, Len(args))

\* args[:idx] + (v,) + args[idx + 1:]
ReplaceAt(args, idx, v) ==
  SubSeq(args, 1, idx) \o <<v>> \o SubSeq(args, idx + 2, Len(args))

HasKey(items, k) == \E i \in 1..Len(items) : items[i][1] = k

\* d[k] = v on a dict held as its items: a present key keeps its place
DictSet(items, k, v) ==
  IF HasKey(items, k)
  THEN [i \in 1..Len(items) |-> IF items[i][1] = k THEN <<k, v>> ELSE items[i]]
  ELSE Append(items, <<k, v>>)

RECURSIVE DictUpdate(_, _)
\* dict.update(other), both held as items
DictUpdate(items, other) ==
  IF other = <<>> THEN items
  ELSE DictUpdate(DictSet(items, Head(other)[1], Head(other)[2]), Tail(other))

\* the headers value after lines 72-77 / 79-84 on a headers value that is not None
MergedInto(existing, superstream_headers) ==
  CASE existing.t = "hdict" -> HDict(DictUpdate(existing.h, superstream_headers.h))
    [] existing.t = "hlist" -> HList(existing.h \o superstream_headers.h)
    [] OTHER -> existing

\* lines 70-84: [raised, args, kwargs]; the assignment of line 73 into the
\* argument tuple raises TypeError
MergeHeaders(args, kwargs, superstream_headers) ==
  IF IsNone(superstream_headers)
  THEN [raised |-> FALSE, args |-> args, kwargs |-> kwargs]
  ELSE IF Len(args) > headers_index
  THEN IF IsNone(Arg(args, headers_index))
       THEN [raised |-> TRUE, args |-> args, kwargs |-> kwargs]
       ELSE [raised |-> FALSE,
             args |-> ReplaceAt(args, headers_index,
                                MergedInto(Arg(args, headers_index), superstream_headers)),
             kwargs |-> kwargs]
  ELSE IF IsNone(KwGet(kwargs, "headers"))
       THEN [raised |-> FALSE, args |-> args,
             kwargs |-> KwSet(kwargs, "headers", superstream_headers)]
       ELSE [raised |-> FALSE, args |-> args,
             kwargs |-> KwSet(kwargs, "headers",
                              MergedInto(kwargs["headers"], superstream_headers))]

\* WriteValue without the test of line 88: a value passed neither way is
\* added by name
WriteValueIntroduces(args, kwargs, serialized_msg) ==
  IF Len(args) > value_idx
  THEN [args |-> ReplaceAt(args, value_idx, serialized_msg), kwargs |-> kwargs]
  ELSE [args |-> args, kwargs |-> KwSet(kwargs, "value", serialized_msg)]

\* lines 86-89: [args, kwargs] with the value replaced where it was passed
WriteValue(args, kwargs, serialized_msg) ==
  IF Len(args) > value_idx
  THEN [args |-> ReplaceAt(args, value_idx, serialized_msg), kwargs |-> kwargs]
  ELSE IF "value" \in DOMAIN kwargs
  THEN [args |-> args, kwargs |-> KwSet(kwargs, "value", serialized_msg)]
  ELSE [args |-> args, kwargs |-> kwargs]

\* lines 91-94: the callback the closure of lines 96-103 captures
OriginalOnDeliveryCb(args, kwargs) ==
  IF "on_delivery" \in DOMAIN kwargs THEN kwargs["on_delivery"]
  ELSE IF Len(args) > on_delivery_idx THEN Arg(args, on_delivery_idx)
  ELSE None

\* updated_on_delivery_cb, the closure over original_on_delivery_cb
Wrapper(original) ==
  [t |-> "wrapper", s |-> original.s, n |-> IF IsNone(original) THEN 0 ELSE 1, h |-> <<>>]
\* the original_on_delivery_cb a wrapper holds
Original(w) == IF w.n = 1 THEN Callback(w.s) ELSE None
IsCallable(v) == v.t \in {"callback", "wrapper"}

\* lines 105-112: [args, kwargs] with the wrapper where on_delivery was passed
WrapOnDelivery(args, kwargs) ==
  IF Len(args) > on_delivery_idx
  THEN [args |-> ReplaceAt(args, on_delivery_idx,
                           Wrapper(OriginalOnDeliveryCb(args, kwargs))),
        kwargs |-> kwargs]
  ELSE IF "on_delivery" \in DOMAIN kwargs
  THEN [args |-> args,
        kwargs |-> KwSet(kwargs, "on_delivery",
                         Wrapper(OriginalOnDeliveryCb(args, kwargs)))]
  ELSE [args |-> args, kwargs |-> kwargs]

\* the headers _serialize returns: line 125, the only assignment that runs
SerializeHeaders == HDict(<<>>)

\* lines 70-112 on call c with the outcome of _serialize: [raised, args, kwargs]
RewriteCall(c, serialized_msg, superstream_headers) ==
  LET m == MergeHeaders(c.args, c.kwargs, superstream_headers)
      v == WriteValue(m.args, m.kwargs, serialized_msg)
      w == WrapOnDelivery(v.args, v.kwargs)
  IN  [raised |-> m.raised, args |-> w.args, kwargs |-> w.kwargs]

\* line 62: the message value of the call
ResolveValue(c) ==
  IF Len(c.args) > value_idx THEN Arg(c.args, value_idx) ELSE KwGet(c.kwargs, "value")

\* HasPartition looking at the positional slot only
HasPartitionPositionalOnly(c) == Len(c.args) > partition_idx

\* line 50: whether the call carries a partition
HasPartition(c) == Len(c.args) > partition_idx \/ "partition" \in DOMAIN c.kwargs
\* lines 51-55
ResolvePartition(c) ==
  IF Len(c.args) > partition_idx THEN Arg(c.args, partition_idx)
  ELSE KwGet(c.kwargs, "partition")

(***************************************************************************)
(* State.                                                                  *)
(***************************************************************************)
VARIABLES
  conn,             \* whether _superstream_config_ holds a Connection
  ready,            \* Connection.superstream_ready
  topicPartitions,  \* the Connection's partition usage: a set of <<topic, partition>>
  counter,          \* Connection.learning_factor_counter
  reqSent,          \* Connection.learning_request_sent
  regReqs,          \* send_register_schema_req calls made so far
  pc,               \* per producer thread: where its produce call stands
  call,             \* per thread: the arguments its caller passed
  path,             \* per thread: the branch produce took
  handled,          \* per thread: the invocations of _producer_handler, in order
  outcome,          \* per thread: how the call ended
  errs,             \* per thread: handle_error calls made during the call
  sub,              \* per thread: the coroutine asyncio.run is running
  tmp,              \* per thread: the counter value read by line 143
  inflight,         \* the wrappers handed to the producer, not yet called back
  dlv,              \* the invocation of a wrapper by the producer client
  learned,          \* send_learning_message calls that returned without raising
  eventLoop,        \* TaskUtil._event_loop: 0 for None, else the loop
  loops,            \* event loops created so far: the loops are 1..loops
  workers,          \* the loops a background thread was started for
  running,          \* the loops that are running
  callerLoop,       \* per caller thread: the loop running in it, 0 for none
  tpc,              \* per caller thread: where its create_task call stands
  newLoop,          \* per caller thread: the local new_loop of create_task
  scheduled,        \* per caller thread: the loop its task was handed to
  cfgIn,            \* the mapping passed to enrich_producer_config
  cfgOut,           \* what enrich_producer_config returned
  cmp               \* a call of compress and its result

connVars == <<conn, ready, topicPartitions, counter, reqSent, regReqs>>
callVars == <<pc, call, path, handled, outcome, errs, sub, tmp>>
taskVars == <<eventLoop, loops, workers, running, callerLoop, tpc, newLoop, scheduled>>
utilVars == <<cfgIn, cfgOut, cmp>>
\* the interceptor's state
icVars == <<connVars, callVars, inflight, dlv, learned>>
\* what the interceptor's actions leave alone
otherVars == <<taskVars, utilVars>>
vars == <<conn, ready, topicPartitions, counter, reqSent, regReqs,
          pc, call, path, handled, outcome, errs, sub, tmp, inflight, dlv, learned,
          eventLoop, loops, workers, running, callerLoop, tpc, newLoop, scheduled,
          cfgIn, cfgOut, cmp>>

Threads == 1..NThreads
NoCall == [args |-> <<>>, kwargs |-> <<>>]
NoSub == [kind |-> "none", state |-> "none"]
DlvIdle == [pc |-> "idle", w |-> None, err |-> None,
            msg |-> [topic |-> "", partition |-> 0], calls |-> <<>>, raised |-> FALSE]
\* TaskUtil._event_loop = None (utils.py line 604)
NoLoop == 0
\* no call of enrich_producer_config, no call of compress
NoConfig == [called |-> FALSE, isNone |-> FALSE, map |-> <<>>, input |-> <<>>, fresh |-> FALSE]
NoCompress == [called |-> FALSE, data |-> None, type |-> None, result |-> None, raised |-> FALSE]

Init ==
  /\ conn \in BOOLEAN
  /\ ready = FALSE
  /\ topicPartitions = {}
  /\ counter = 0
  /\ reqSent = FALSE
  /\ regReqs = 0
  /\ pc = [t \in Threads |-> "idle"]
  /\ call = [t \in Threads |-> NoCall]
  /\ path = [t \in Threads |-> "none"]
  /\ handled = [t \in Threads |-> <<>>]
  /\ outcome = [t \in Threads |-> "none"]
  /\ errs = [t \in Threads |-> 0]
  /\ sub = [t \in Threads |-> NoSub]
  /\ tmp = [t \in Threads |-> 0]
  /\ inflight = {}
  /\ dlv = DlvIdle
  /\ learned = 0
  /\ eventLoop = NoLoop
  /\ loops = 0
  /\ workers = {}
  /\ running = {}
  /\ callerLoop = [c \in Threads |-> NoLoop]
  /\ tpc = [c \in Threads |-> "idle"]
  /\ newLoop = [c \in Threads |-> NoLoop]
  /\ scheduled = [c \in Threads |-> NoLoop]
  /\ cfgIn = NoConfig
  /\ cfgOut = NoConfig
  /\ cmp = NoCompress

(***************************************************************************)
(* The Connection (confluent_kafka.superstream.core), at the boundary the  *)
(* interceptor calls.                                                      *)
(***************************************************************************)
\* the Connection finishes its start-up and sets superstream_ready
ConnectionReady ==
  /\ conn /\ ~ready
  /\ ready' = TRUE
  /\ UNCHANGED <<conn, topicPartitions, counter, reqSent, regReqs, callVars, inflight, dlv>>
  /\ UNCHANGED <<learned, otherVars>>

\* update_topic_partitions keeping only the pair just recorded
UpdateTopicPartitionsReplaces(tp, topic, partition) == {<<topic, partition>>}

\* Connection.update_topic_partitions(topic, partition)
UpdateTopicPartitions(tp, topic, partition) == tp \cup {<<topic, partition>>}

(***************************************************************************)
(* produce, lines 35-68: up to the call of _serialize.                     *)
(***************************************************************************)
\* the branch lines 42-66 take on call c
ProducePath(c) ==
  IF ~conn THEN "no_connection"
  ELSE IF Len(c.args) = 0 THEN "index_error"
  ELSE IF ~ready THEN "not_ready"
  ELSE IF IsNone(TryConvertToJson(ResolveValue(c))) THEN "not_json"
  ELSE "active"

Produce(t, c) ==
  /\ pc[t] = "idle"
  /\ LET p == ProducePath(c) IN
     /\ call' = [call EXCEPT ![t] = c]
     /\ path' = [path EXCEPT ![t] = p]
     /\ errs' = [errs EXCEPT ![t] = 0]
     /\ topicPartitions' =
          IF p \in {"not_ready", "not_json", "active"} /\ HasPartition(c)
          THEN UpdateTopicPartitions(topicPartitions, Arg(c.args, topic_idx).s,
                                     ResolvePartition(c).n)
          ELSE topicPartitions
     /\ handled' = [handled EXCEPT ![t] =
                      IF p \in {"no_connection", "not_ready", "not_json"}
                      THEN <<c>> ELSE <<>>]
     /\ outcome' = [outcome EXCEPT ![t] =
                      CASE p = "index_error" -> "IndexError"
                        [] p = "active" -> "none"
                        [] OTHER -> "returned"]
     /\ pc' = [pc EXCEPT ![t] = IF p = "active" THEN "serialize" ELSE "done"]
  /\ UNCHANGED <<conn, ready, counter, reqSent, regReqs, sub, tmp, inflight, dlv>>
  /\ UNCHANGED <<learned, otherVars>>

(***************************************************************************)
(* _serialize, lines 120-157.  asyncio.run(coro) runs the coroutine to its *)
(* end on the calling thread: the thread starts it and goes on only when   *)
(* it has returned or raised.                                              *)
(***************************************************************************)
\* line 141: whether the learner still takes this message
LearningOpen(c) == c <= LearningFactor

\* line 141, and the start of line 142 when the learner is open
SerializeCheck(t) ==
  /\ pc[t] = "serialize"
  /\ IF LearningOpen(counter)
     THEN /\ sub' = [sub EXCEPT ![t] = [kind |-> "learning", state |-> "pending"]]
          /\ pc' = [pc EXCEPT ![t] = "learn_wait"]
     ELSE /\ sub' = sub
          /\ pc' = [pc EXCEPT ![t] = "check_sent"]
  /\ UNCHANGED <<connVars, call, path, handled, outcome, errs, tmp, inflight, dlv>>
  /\ UNCHANGED <<learned, otherVars>>

\* line 142 ends: send_learning_message returned (ok) or raised (lines 146-147)
LearnDone(t, ok) ==
  /\ pc[t] = "learn_wait"
  /\ sub' = [sub EXCEPT ![t].state = IF ok THEN "ok" ELSE "failed"]
  /\ errs' = [errs EXCEPT ![t] = IF ok THEN @ ELSE @ + 1]
  /\ pc' = [pc EXCEPT ![t] = IF ok THEN "incr_read" ELSE "rewrite"]
  /\ UNCHANGED <<connVars, call, path, handled, outcome, tmp, inflight, dlv>>
  /\ learned' = IF ok THEN learned + 1 ELSE learned
  /\ UNCHANGED otherVars

\* line 143, learning_factor_counter += 1: the read
IncrRead(t) ==
  /\ pc[t] = "incr_read"
  /\ tmp' = [tmp EXCEPT ![t] = counter]
  /\ pc' = [pc EXCEPT ![t] = "incr_write"]
  /\ UNCHANGED <<connVars, call, path, handled, outcome, errs, sub, inflight, dlv>>
  /\ UNCHANGED <<learned, otherVars>>

\* line 143: the write
IncrWrite(t) ==
  /\ pc[t] = "incr_write"
  /\ counter' = tmp[t] + 1
  /\ tmp' = [tmp EXCEPT ![t] = 0]
  /\ pc' = [pc EXCEPT ![t] = "rewrite"]
  /\ UNCHANGED <<conn, ready, topicPartitions, reqSent, regReqs,
                 call, path, handled, outcome, errs, sub, inflight, dlv>>
  /\ UNCHANGED <<learned, otherVars>>

\* line 144: the read of learning_request_sent
CheckSent(t) ==
  /\ pc[t] = "check_sent"
  /\ pc' = [pc EXCEPT ![t] = IF reqSent THEN "rewrite" ELSE "register"]
  /\ UNCHANGED <<connVars, call, path, handled, outcome, errs, sub, tmp, inflight, dlv>>
  /\ UNCHANGED <<learned, otherVars>>

\* learning_request_sent once send_register_schema_req has started: the
\* Connection sets the flag at once
FlagAfterRegister(flag) == TRUE

\* line 145 starts: the registration request is issued
Register(t) ==
  /\ pc[t] = "register"
  /\ regReqs' = regReqs + 1
  /\ reqSent' = FlagAfterRegister(reqSent)
  /\ sub' = [sub EXCEPT ![t] = [kind |-> "registration", state |-> "pending"]]
  /\ pc' = [pc EXCEPT ![t] = "register_wait"]
  /\ UNCHANGED <<conn, ready, topicPartitions, counter,
                 call, path, handled, outcome, errs, tmp, inflight, dlv>>
  /\ UNCHANGED <<learned, otherVars>>

\* line 145 ends: send_register_schema_req returned (ok) or raised (lines 146-147)
RegisterDone(t, ok) ==
  /\ pc[t] = "register_wait"
  /\ sub' = [sub EXCEPT ![t].state = IF ok THEN "ok" ELSE "failed"]
  /\ errs' = [errs EXCEPT ![t] = IF ok THEN @ ELSE @ + 1]
  /\ pc' = [pc EXCEPT ![t] = "rewrite"]
  /\ UNCHANGED <<connVars, call, path, handled, outcome, tmp, inflight, dlv>>
  /\ UNCHANGED <<learned, otherVars>>

(***************************************************************************)
(* produce, lines 68-114: the rewriting and the call of the handler.       *)
(***************************************************************************)
\* the payload _serialize returns for the call: lines 63 and 124
SerializedMsg(c) == EncodeUtf8(TryConvertToJson(ResolveValue(c)))

\* the wrappers among the arguments handed to the producer
WrappersOf(c) ==
  {c.args[i] : i \in {j \in 1..Len(c.args) : c.args[j].t = "wrapper"}}
    \cup {c.kwargs[k] : k \in {x \in DOMAIN c.kwargs : c.kwargs[x].t = "wrapper"}}

Rewrite(t) ==
  /\ pc[t] = "rewrite"
  /\ LET r == RewriteCall(call[t], SerializedMsg(call[t]), SerializeHeaders)
         h == [args |-> r.args, kwargs |-> r.kwargs]
     IN  IF r.raised
         THEN /\ outcome' = [outcome EXCEPT ![t] = "TypeError"]
              /\ UNCHANGED <<handled, inflight>>
         ELSE /\ outcome' = [outcome EXCEPT ![t] = "returned"]
              /\ handled' = [handled EXCEPT ![t] = Append(@, h)]
              /\ inflight' = inflight \cup WrappersOf(h)
  /\ pc' = [pc EXCEPT ![t] = "done"]
  /\ UNCHANGED <<connVars, call, path, errs, sub, tmp, dlv>>
  /\ UNCHANGED <<learned, otherVars>>

\* the caller has the result of produce and may call again
Return(t) ==
  /\ pc[t] = "done"
  /\ pc' = [pc EXCEPT ![t] = "idle"]
  /\ call' = [call EXCEPT ![t] = NoCall]
  /\ path' = [path EXCEPT ![t] = "none"]
  /\ handled' = [handled EXCEPT ![t] = <<>>]
  /\ outcome' = [outcome EXCEPT ![t] = "none"]
  /\ errs' = [errs EXCEPT ![t] = 0]
  /\ sub' = [sub EXCEPT ![t] = NoSub]
  /\ UNCHANGED <<connVars, tmp, inflight, dlv>>
  /\ UNCHANGED <<learned, otherVars>>

(***************************************************************************)
(* updated_on_delivery_cb, lines 96-103, called by the producer client     *)
(* with the delivery report (err, msg) of one message.                     *)
(***************************************************************************)
KafkaError == Str("KafkaError")
DeliveryErrors == {None, KafkaError}
Messages == [topic : Topics, partition : Partitions]
\* the truth value of `if err`
Truthy(v) == ~IsNone(v)

\* original_on_delivery_cb(err, msg) on the invocation record d
CallOriginal(d) ==
  IF IsCallable(Original(d.w))
  THEN [d EXCEPT !.pc = "done",
                 !.calls = Append(@, [cb |-> Original(d.w), err |-> d.err, msg |-> d.msg])]
  ELSE [d EXCEPT !.pc = "done", !.raised = TRUE]

\* DeliverStart without the test of err: the usage is updated on every report
DeliverStartAlwaysUpdates(w, err, msg) ==
  /\ dlv.pc = "idle"
  /\ w \in inflight
  /\ inflight' = inflight \ {w}
  /\ dlv' = [DlvIdle EXCEPT !.w = w, !.err = err, !.msg = msg, !.pc = "call_original"]
  /\ topicPartitions' = UpdateTopicPartitions(topicPartitions, msg.topic, msg.partition)
  /\ UNCHANGED <<conn, ready, counter, reqSent, regReqs, callVars>>
  /\ UNCHANGED <<learned, otherVars>>

\* DeliverStart calling the original callback at once, the usage not updated
DeliverStartSkipsUpdate(w, err, msg) ==
  /\ dlv.pc = "idle"
  /\ w \in inflight
  /\ inflight' = inflight \ {w}
  /\ dlv' = CallOriginal([DlvIdle EXCEPT !.w = w, !.err = err, !.msg = msg])
  /\ topicPartitions' = topicPartitions
  /\ UNCHANGED <<conn, ready, counter, reqSent, regReqs, callVars>>
  /\ UNCHANGED <<learned, otherVars>>

\* lines 97-102
DeliverStart(w, err, msg) ==
  /\ dlv.pc = "idle"
  /\ w \in inflight
  /\ inflight' = inflight \ {w}
  /\ LET d == [DlvIdle EXCEPT !.w = w, !.err = err, !.msg = msg] IN
     IF Truthy(err)
     THEN /\ dlv' = CallOriginal(d)
          /\ topicPartitions' = topicPartitions
     ELSE /\ dlv' = [d EXCEPT !.pc = "call_original"]
          /\ topicPartitions' =
               UpdateTopicPartitions(topicPartitions, msg.topic, msg.partition)
  /\ UNCHANGED <<conn, ready, counter, reqSent, regReqs, callVars>>
  /\ UNCHANGED <<learned, otherVars>>

\* line 103
DeliverCallOriginal ==
  /\ dlv.pc = "call_original"
  /\ dlv' = CallOriginal(dlv)
  /\ UNCHANGED <<connVars, callVars, inflight>>
  /\ UNCHANGED <<learned, otherVars>>

\* the wrapper has returned to the producer client
DeliverEnd ==
  /\ dlv.pc = "done"
  /\ dlv' = DlvIdle
  /\ UNCHANGED <<connVars, callVars, inflight>>
  /\ UNCHANGED <<learned, otherVars>>

(***************************************************************************)
(* Spec: one application thread, which calls produce with any call shape   *)
(* and serves the delivery reports between its produce calls (poll).       *)
(***************************************************************************)
SeqProduce(c) ==
  /\ dlv.pc = "idle"
  /\ Cardinality(inflight) < MaxInflight
  /\ Produce(1, c)
Poll(w, err, msg) == pc[1] = "idle" /\ DeliverStart(w, err, msg)

Next ==
  \/ ConnectionReady
  \/ \E c \in Calls : SeqProduce(c)
  \/ SerializeCheck(1)
  \/ \E ok \in BOOLEAN : LearnDone(1, ok)
  \/ IncrRead(1)
  \/ IncrWrite(1)
  \/ CheckSent(1)
  \/ Register(1)
  \/ \E ok \in BOOLEAN : RegisterDone(1, ok)
  \/ Rewrite(1)
  \/ Return(1)
  \/ \E w \in inflight, err \in DeliveryErrors, msg \in Messages : Poll(w, err, msg)
  \/ DeliverCallOriginal
  \/ DeliverEnd

Spec == Init /\ [][Next]_vars

(***************************************************************************)
(* SpecConc: NThreads producer threads call produce on one interceptor,    *)
(* their steps interleaved in any order.                                   *)
(***************************************************************************)
\* produce("orders", '{"id": 1}') and produce("orders", '{"id": 1}', partition=p)
ConcCalls ==
  {c \in Calls : /\ Len(c.args) = 2
                 /\ Arg(c.args, value_idx) = Str(JsonText)
                 /\ DOMAIN c.kwargs \subseteq {"partition"}}

NextConc ==
  \/ ConnectionReady
  \/ \E t \in Threads, c \in ConcCalls : Produce(t, c)
  \/ \E t \in Threads : SerializeCheck(t)
  \/ \E t \in Threads, ok \in BOOLEAN : LearnDone(t, ok)
  \/ \E t \in Threads : IncrRead(t)
  \/ \E t \in Threads : IncrWrite(t)
  \/ \E t \in Threads : CheckSent(t)
  \/ \E t \in Threads : Register(t)
  \/ \E t \in Threads, ok \in BOOLEAN : RegisterDone(t, ok)
  \/ \E t \in Threads : Rewrite(t)
  \/ \E t \in Threads : Return(t)

SpecConc == Init /\ [][NextConc]_vars

(***************************************************************************)
(* SpecDeliv: the producer threads call produce while the producer client  *)
(* reports deliveries from a thread of its own, in any interleaving.       *)
(***************************************************************************)
\* produce("orders", '{"id": 1}', on_delivery=cb), with partition=p or without
DelivCalls ==
  {c \in Calls : /\ Len(c.args) = 2
                 /\ Arg(c.args, value_idx) = Str(JsonText)
                 /\ DOMAIN c.kwargs \subseteq {"partition", "on_delivery"}
                 /\ IsCallable(KwGet(c.kwargs, "on_delivery"))}

NextDeliv ==
  \/ ConnectionReady
  \/ \E t \in Threads, c \in DelivCalls : Produce(t, c)
  \/ \E t \in Threads : SerializeCheck(t)
  \/ \E t \in Threads, ok \in BOOLEAN : LearnDone(t, ok)
  \/ \E t \in Threads : IncrRead(t)
  \/ \E t \in Threads : IncrWrite(t)
  \/ \E t \in Threads : CheckSent(t)
  \/ \E t \in Threads : Register(t)
  \/ \E t \in Threads, ok \in BOOLEAN : RegisterDone(t, ok)
  \/ \E t \in Threads : Rewrite(t)
  \/ \E t \in Threads : Return(t)
  \/ \E w \in inflight, err \in DeliveryErrors, msg \in Messages : DeliverStart(w, err, msg)
  \/ DeliverCallOriginal
  \/ DeliverEnd

SpecDeliv == Init /\ [][NextDeliv]_vars

(***************************************************************************)
(* SpecLive: one application thread that keeps calling produce with values *)
(* that convert to JSON, every learning submission succeeding.  Fairness:  *)
(* the thread keeps running, so a step that can be taken is taken.         *)
(***************************************************************************)
\* the calls without a delivery callback whose value converts to JSON
LiveCalls ==
  {c \in Calls : /\ Len(c.args) <= partition_idx + 1
                 /\ "on_delivery" \notin DOMAIN c.kwargs
                 /\ ~IsNone(TryConvertToJson(ResolveValue(c)))}

NextLive ==
  \/ ConnectionReady
  \/ \E c \in LiveCalls : Produce(1, c)
  \/ SerializeCheck(1)
  \/ LearnDone(1, TRUE)
  \/ IncrRead(1)
  \/ IncrWrite(1)
  \/ CheckSent(1)
  \/ Register(1)
  \/ \E ok \in BOOLEAN : RegisterDone(1, ok)
  \/ Rewrite(1)
  \/ Return(1)

SpecLive == Init /\ [][NextLive]_vars /\ WF_vars(NextLive)

(***************************************************************************)
(* TaskUtil.create_task, utils.py lines 603-618.  A loop is identified by  *)
(* the order of its creation.  A caller thread is either plain or inside a *)
(* coroutine of a loop running in it (asyncio.run), and calls create_task  *)
(* from there.                                                             *)
(***************************************************************************)
\* loop.is_running()
IsRunning(l) == l \in running
\* the callers between line 607 and the end of line 615
Trying == {c \in Threads : tpc[c] = "try"}
\* a further loop may be created within the bound
LoopBudget == loops + Cardinality(Trying) < MaxLoops

\* line 607, and line 608 when the remembered loop is set and running
CreateTaskCheck(c) ==
  /\ tpc[c] = "idle"
  /\ IF eventLoop # NoLoop /\ IsRunning(eventLoop)
     THEN /\ scheduled' = [scheduled EXCEPT ![c] = eventLoop]
          /\ tpc' = [tpc EXCEPT ![c] = "done"]
     ELSE /\ LoopBudget
          /\ scheduled' = scheduled
          /\ tpc' = [tpc EXCEPT ![c] = "try"]
  /\ UNCHANGED <<eventLoop, loops, workers, running, callerLoop, newLoop>>
  /\ UNCHANGED <<icVars, utilVars>>

\* lines 610-615: the loop running in the calling thread is remembered, or
\* else a new loop is created and a thread started to run it
CreateTaskTry(c) ==
  /\ tpc[c] = "try"
  /\ IF callerLoop[c] # NoLoop
     THEN /\ eventLoop' = callerLoop[c]
          /\ tpc' = [tpc EXCEPT ![c] = "schedule"]
          /\ UNCHANGED <<loops, workers, newLoop>>
     ELSE /\ loops' = loops + 1
          /\ newLoop' = [newLoop EXCEPT ![c] = loops + 1]
          /\ workers' = workers \cup {loops + 1}
          /\ tpc' = [tpc EXCEPT ![c] = "assign"]
          /\ eventLoop' = eventLoop
  /\ UNCHANGED <<running, callerLoop, scheduled>>
  /\ UNCHANGED <<icVars, utilVars>>

\* line 616
CreateTaskAssign(c) ==
  /\ tpc[c] = "assign"
  /\ eventLoop' = newLoop[c]
  /\ tpc' = [tpc EXCEPT ![c] = "schedule"]
  /\ UNCHANGED <<loops, workers, running, callerLoop, newLoop, scheduled>>
  /\ UNCHANGED <<icVars, utilVars>>

\* line 618: the task goes to the loop TaskUtil._event_loop holds now
CreateTaskSchedule(c) ==
  /\ tpc[c] = "schedule"
  /\ scheduled' = [scheduled EXCEPT ![c] = eventLoop]
  /\ tpc' = [tpc EXCEPT ![c] = "done"]
  /\ UNCHANGED <<eventLoop, loops, workers, running, callerLoop, newLoop>>
  /\ UNCHANGED <<icVars, utilVars>>

\* the caller has the task and may call again
CreateTaskReturn(c) ==
  /\ tpc[c] = "done"
  /\ tpc' = [tpc EXCEPT ![c] = "idle"]
  /\ newLoop' = [newLoop EXCEPT ![c] = NoLoop]
  /\ scheduled' = [scheduled EXCEPT ![c] = NoLoop]
  /\ UNCHANGED <<eventLoop, loops, workers, running, callerLoop>>
  /\ UNCHANGED <<icVars, utilVars>>

\* line 614, target=new_loop.run_forever: the started thread enters the loop
WorkerRuns(l) ==
  /\ l \in workers \ running
  /\ running' = running \cup {l}
  /\ UNCHANGED <<eventLoop, loops, workers, callerLoop, tpc, newLoop, scheduled>>
  /\ UNCHANGED <<icVars, utilVars>>

\* a caller thread enters asyncio.run: a new loop runs in it
CallerLoopStarts(c) ==
  /\ tpc[c] = "idle" /\ callerLoop[c] = NoLoop
  /\ LoopBudget
  /\ loops' = loops + 1
  /\ callerLoop' = [callerLoop EXCEPT ![c] = loops + 1]
  /\ running' = running \cup {loops + 1}
  /\ UNCHANGED <<eventLoop, workers, tpc, newLoop, scheduled>>
  /\ UNCHANGED <<icVars, utilVars>>

\* asyncio.run returns in a caller thread: its loop has stopped
CallerLoopEnds(c) ==
  /\ tpc[c] = "idle" /\ callerLoop[c] # NoLoop
  /\ running' = running \ {callerLoop[c]}
  /\ callerLoop' = [callerLoop EXCEPT ![c] = NoLoop]
  /\ UNCHANGED <<eventLoop, loops, workers, tpc, newLoop, scheduled>>
  /\ UNCHANGED <<icVars, utilVars>>

NextTask ==
  \/ \E c \in Threads : CreateTaskCheck(c)
  \/ \E c \in Threads : CreateTaskTry(c)
  \/ \E c \in Threads : CreateTaskAssign(c)
  \/ \E c \in Threads : CreateTaskSchedule(c)
  \/ \E c \in Threads : CreateTaskReturn(c)
  \/ \E l \in workers : WorkerRuns(l)
  \/ \E c \in Threads : CallerLoopStarts(c)
  \/ \E c \in Threads : CallerLoopEnds(c)

SpecTask == Init /\ [][NextTask]_vars

(***************************************************************************)
(* KafkaUtil.enrich_producer_config, utils.py lines 530-542, over the      *)
(* entries of the key tables named below.  A dict is a function from its   *)
(* keys; a list of keys is a sequence.                                     *)
(***************************************************************************)
\* utils.py lines 235-236
ProducerConfigKeys == <<"transactional.id", "transaction.timeout.ms">>
\* utils.py lines 127, 129, 145, 173 and 231: line 145 is two adjacent string
\* literals, one key; "opaque" is listed twice
ProducerAndConsumerConfigKeys ==
  <<"client.id", "bootstrap.servers",
    "socket.send.buffer.bytessocket.receive.buffer.bytes", "opaque", "opaque">>
\* the entries of Defaults for the keys above, for the two keys line 145
\* merges, and for "group.id", a key of consumers only (line 268)
Defaults ==
  [k \in {"client.id", "bootstrap.servers", "socket.send.buffer.bytes",
          "socket.receive.buffer.bytes", "opaque", "group.id", "transactional.id",
          "transaction.timeout.ms"} |->
     CASE k = "client.id" -> Str("rdkafka")
       [] k = "transaction.timeout.ms" -> IntVal(60000)
       [] k \in {"socket.send.buffer.bytes", "socket.receive.buffer.bytes"} -> IntVal(0)
       [] OTHER -> Str("")]

RECURSIVE EnrichFromOverwrites(_, _)
\* EnrichFrom without the test of line 537: a default replaces a present value
EnrichFromOverwrites(enriched_config, keys) ==
  IF keys = <<>> THEN enriched_config
  ELSE LET key == Head(keys) IN
       EnrichFromOverwrites(
         IF key \in DOMAIN Defaults THEN KwSet(enriched_config, key, Defaults[key])
         ELSE enriched_config,
         Tail(keys))

RECURSIVE EnrichFrom(_, _)
\* the loop of lines 536-540 over the keys still to visit
EnrichFrom(enriched_config, keys) ==
  IF keys = <<>> THEN enriched_config
  ELSE LET key == Head(keys) IN
       EnrichFrom(
         IF key \in DOMAIN enriched_config THEN enriched_config
         ELSE IF key \in DOMAIN Defaults THEN KwSet(enriched_config, key, Defaults[key])
         ELSE enriched_config,
         Tail(keys))

\* `if config`: None and the empty dict are false
ConfigTruthy(config) == ~config.isNone /\ DOMAIN config.map # {}

\* enrich_producer_config(config): the mapping returned, the input mapping as
\* the call leaves it, and whether the result is an object of its own
EnrichProducerConfig(config) ==
  LET copy == IF ConfigTruthy(config) THEN config.map ELSE <<>>
      producer_keys == ProducerConfigKeys \o ProducerAndConsumerConfigKeys
  IN  [map |-> EnrichFrom(copy, producer_keys), input |-> config.map, fresh |-> TRUE]

\* the keys and values of the configurations passed in
ConfigKeys == {"client.id", "transactional.id", "group.id", "my.custom.key"}
ConfigValues == {Str("app"), Str("")}
ConfigMaps == UNION {[ks -> ConfigValues] : ks \in SUBSET ConfigKeys}
Configs == {[isNone |-> FALSE, map |-> m] : m \in ConfigMaps}
             \cup {[isNone |-> TRUE, map |-> <<>>]}

\* the application thread is between two calls
OpsIdle == pc[1] = "idle" /\ ~cfgIn.called /\ ~cmp.called

\* a call KafkaUtil.enrich_producer_config(config)
Enrich(config) ==
  /\ OpsIdle
  /\ cfgIn' = [NoConfig EXCEPT !.called = TRUE, !.isNone = config.isNone, !.map = config.map]
  /\ cfgOut' = [NoConfig EXCEPT !.called = TRUE,
                                !.map = EnrichProducerConfig(config).map,
                                !.input = EnrichProducerConfig(config).input,
                                !.fresh = EnrichProducerConfig(config).fresh]
  /\ UNCHANGED <<cmp, icVars, taskVars>>

\* the caller has the enriched mapping and may call again
EnrichReturn ==
  /\ cfgIn.called
  /\ cfgIn' = NoConfig
  /\ cfgOut' = NoConfig
  /\ UNCHANGED <<cmp, icVars, taskVars>>

(***************************************************************************)
(* compress, producer_interceptor.py lines 159-165.                        *)
(***************************************************************************)
\* zstd.compress(data): the frame of the data, never the data themselves
Zstd(data) == [t |-> "zstd", s |-> data.s, n |-> 0, h |-> <<>>]
\* `not compression_type`: None and the empty string are false
NotSet(compression_type) == IsNone(compression_type) \/ compression_type = Str("")

\* compress(data, compression_type): what it returns, or that it raised
Compress(data, compression_type) ==
  IF NotSet(compression_type) THEN [result |-> data, raised |-> FALSE]
  ELSE IF compression_type = Str("zstd") THEN [result |-> Zstd(data), raised |-> FALSE]
  ELSE [result |-> None, raised |-> TRUE]

CompressData == {Bytes("raw"), Bytes("")}
CompressionTypes == {None, Str(""), Str("zstd"), Str("gzip"), Str("snappy")}

\* a call interceptor.compress(data, compression_type)
CompressCall(data, compression_type) ==
  /\ OpsIdle
  /\ cmp' = [called |-> TRUE, data |-> data, type |-> compression_type,
             result |-> Compress(data, compression_type).result,
             raised |-> Compress(data, compression_type).raised]
  /\ UNCHANGED <<cfgIn, cfgOut, icVars, taskVars>>

\* the caller has the result of compress, or its exception, and may call again
CompressReturn ==
  /\ cmp.called
  /\ cmp' = NoCompress
  /\ UNCHANGED <<cfgIn, cfgOut, icVars, taskVars>>

(***************************************************************************)
(* SpecOps: the operations of the interceptor called by one application    *)
(* thread in any order.                                                    *)
(***************************************************************************)
\* produce(topic="orders", value=v), produce("orders", v) and
\* produce("orders", v, "k", 0, None, 0, None), v a JSON text
OpsCalls ==
  {c \in Calls : /\ Len(c.args) \in {0, value_idx + 1, headers_index + 1}
                 /\ ResolveValue(c) = Str(JsonText)
                 /\ DOMAIN c.kwargs = IF Len(c.args) = 0 THEN {"topic", "value"} ELSE {}
                 /\ Len(c.args) > headers_index
                      => /\ Arg(c.args, partition_idx) = IntVal(0)
                         /\ IsNone(Arg(c.args, on_delivery_idx))
                         /\ IsNone(Arg(c.args, headers_index))}

OpsProduce(c) == OpsIdle /\ Produce(1, c)

NextOps ==
  \/ \E config \in Configs : Enrich(config)
  \/ EnrichReturn
  \/ \E data \in CompressData, ct \in CompressionTypes : CompressCall(data, ct)
  \/ CompressReturn
  \/ ConnectionReady
  \/ \E c \in OpsCalls : OpsProduce(c)
  \/ SerializeCheck(1)
  \/ \E ok \in BOOLEAN : LearnDone(1, ok)
  \/ IncrRead(1)
  \/ IncrWrite(1)
  \/ CheckSent(1)
  \/ Register(1)
  \/ \E ok \in BOOLEAN : RegisterDone(1, ok)
  \/ Rewrite(1)
  \/ Return(1)

SpecOps == Init /\ [][NextOps]_vars

(***************************************************************************)
(* Properties.                                                             *)
(***************************************************************************)
\* the producer handler was invoked exactly once during the call of t
HandlerInvoked(t) == Len(handled[t]) = 1
\* the arguments the handler of t was invoked with
Handed(t) == handled[t][1]
\* a produce call of t on the active path has ended
ActiveDone(t) == pc[t] = "done" /\ path[t] = "active"
\* a field kept by its 0-based slot or by its name
PassedPositionally(c, idx) == Len(c.args) > idx
PassedByName(c, name) == name \in DOMAIN c.kwargs

\* C1: a produce call made when there is no Connection, or the Connection is
\* not ready, or the value does not convert to JSON, invokes the producer
\* handler exactly once, with the positional sequence and the named-argument
\* mapping the caller passed.
C1_BypassHandsOriginalArguments ==
  [][\A t \in Threads :
       (pc[t] = "idle" /\ pc'[t] # "idle"
          /\ (~conn \/ ~ready \/ IsNone(TryConvertToJson(ResolveValue(call'[t])))))
       => handled'[t] = <<call'[t]>>]_vars

\* the topic of a call, from slot 0 or else from the name
ClaimedTopic(c) ==
  IF PassedPositionally(c, topic_idx) THEN Arg(c.args, topic_idx) ELSE KwGet(c.kwargs, "topic")

\* C2: with a Connection present, every valid call shape has its fields
\* resolved from the positional slot or else from the name, and the producer
\* handler is invoked: no call ends without the handler having been called,
\* and a call that carries a partition has it recorded under its topic.
C2_EveryShapeResolvedAndHandled ==
  \A t \in Threads :
    (conn /\ pc[t] = "done")
    => /\ HandlerInvoked(t)
       /\ HasPartition(call[t])
            => <<ClaimedTopic(call[t]).s, ResolvePartition(call[t]).n>> \in topicPartitions

\* C3: at most one schema-registration request is issued over the lifetime
\* of the Connection, whatever the interleaving of the producer threads.
C3_AtMostOneRegistration == regReqs <= 1

\* the value the handler of t received, where the caller passed one
HandedValue(t) ==
  IF PassedPositionally(call[t], value_idx) THEN Arg(Handed(t).args, value_idx)
  ELSE KwGet(Handed(t).kwargs, "value")

\* C4: on the active path, when the learning submission or the registration
\* request raises, the failure is reported once through handle_error, the
\* call returns without an exception, and the handler is invoked with the
\* UTF-8 bytes of the JSON text as the value the caller supplied.
C4_FailureReportedAndMessageHanded ==
  \A t \in Threads :
    (ActiveDone(t) /\ sub[t].state = "failed")
    => /\ errs[t] = 1
       /\ outcome[t] = "returned"
       /\ HandlerInvoked(t)
       /\ (PassedPositionally(call[t], value_idx) \/ PassedByName(call[t], "value"))
            => HandedValue(t) = SerializedMsg(call[t])

\* C5: produce never waits for a learning submission or a registration
\* request: no producer thread is held at the submission while the
\* submitted coroutine is still pending.
C5_ProduceNeverWaits ==
  \A t \in Threads :
    sub[t].state = "pending" => pc[t] \notin {"learn_wait", "register_wait"}

\* C6: on the active path with the learner open, a call that passes neither
\* headers nor on_delivery reaches the handler with the value replaced by
\* its UTF-8 JSON bytes and the same named-argument keys: no headers entry
\* is introduced.
C6_NoHeadersEntryIntroduced ==
  \A t \in Threads :
    (/\ ActiveDone(t) /\ sub[t].kind = "learning"
     /\ ~PassedPositionally(call[t], headers_index) /\ ~PassedByName(call[t], "headers")
     /\ ~PassedPositionally(call[t], on_delivery_idx)
     /\ ~PassedByName(call[t], "on_delivery")
     /\ (PassedPositionally(call[t], value_idx) \/ PassedByName(call[t], "value")))
    => /\ HandlerInvoked(t)
       /\ HandedValue(t) = SerializedMsg(call[t])
       /\ DOMAIN Handed(t).kwargs = DOMAIN call[t].kwargs

\* C7: on the active path every positional slot other than value,
\* on_delivery and headers, and every named argument other than those three,
\* reaches the producer handler with the value the caller passed.
C7_OtherFieldsReachHandlerUnchanged ==
  \A t \in Threads :
    (path[t] = "active" /\ HandlerInvoked(t))
    => /\ \A i \in 1..Len(call[t].args) :
            (i - 1) \notin {value_idx, on_delivery_idx, headers_index}
            => i <= Len(Handed(t).args) /\ Handed(t).args[i] = call[t].args[i]
       /\ \A k \in DOMAIN call[t].kwargs \ {"value", "on_delivery", "headers"} :
            k \in DOMAIN Handed(t).kwargs /\ Handed(t).kwargs[k] = call[t].kwargs[k]

\* an active call whose value and callback were both replaced in their slots,
\* next to a key and a partition passed positionally
C7_Witness ==
  \E t \in Threads :
    /\ ActiveDone(t) /\ HandlerInvoked(t)
    /\ Len(call[t].args) = on_delivery_idx + 1
    /\ Arg(Handed(t).args, value_idx) = SerializedMsg(call[t])
    /\ Arg(Handed(t).args, on_delivery_idx) = Wrapper(Cb1)
    /\ "headers" \in DOMAIN call[t].kwargs

\* C8: whenever the producer handler is invoked, on any path and for any
\* call shape, it receives a positional sequence as long as the caller's.
C8_PositionalLengthPreserved ==
  \A t \in Threads :
    HandlerInvoked(t) => Len(Handed(t).args) = Len(call[t].args)

\* an active call of seven positional arguments reached the handler with
\* its value, its callback and its headers slot rewritten
C8_Witness ==
  \E t \in Threads :
    /\ ActiveDone(t) /\ HandlerInvoked(t)
    /\ Len(call[t].args) = headers_index + 1
    /\ Arg(Handed(t).args, value_idx) # Arg(call[t].args, value_idx)
    /\ Arg(Handed(t).args, on_delivery_idx).t = "wrapper"

\* the headers of a call: slot 6, or else the named entry, or else None
HeadersOf(c) ==
  IF PassedPositionally(c, headers_index) THEN Arg(c.args, headers_index)
  ELSE KwGet(c.kwargs, "headers")

\* header items read as a mapping: a later pair of a key overrides an earlier
AsMapping(items) ==
  [k \in {items[i][1] : i \in 1..Len(items)} |->
     items[CHOOSE i \in 1..Len(items) :
             /\ items[i][1] = k
             /\ \A j \in 1..Len(items) : items[j][1] = k => j <= i][2]]

\* the union of two mappings, the second overriding on conflict
Override(f, g) ==
  [k \in (DOMAIN f) \cup (DOMAIN g) |-> IF k \in DOMAIN g THEN g[k] ELSE f[k]]

\* the header merging the claim describes, of superstream headers sh into h
MergedAsClaimed(before, after, sh) ==
  CASE before.t = "hdict" ->
         /\ after.t = "hdict"
         /\ AsMapping(after.h) = Override(AsMapping(before.h), AsMapping(sh.h))
    [] before.t = "hlist" -> after = HList(before.h \o sh.h)
    [] OTHER -> after = sh

\* C9: on the active path the headers, found in slot 6 or by name, are
\* merged with the superstream headers (a mapping: union, superstream keys
\* overriding; a list: pairs appended; None or absent: the superstream
\* headers), and the producer handler is invoked with the merged headers.
C9_MergedHeadersReachHandler ==
  \A t \in Threads :
    ActiveDone(t)
    => /\ HandlerInvoked(t)
       /\ PassedPositionally(Handed(t), headers_index)
            = PassedPositionally(call[t], headers_index)
       /\ MergedAsClaimed(HeadersOf(call[t]), HeadersOf(Handed(t)), SerializeHeaders)

\* C10: a wrapper called with a non-null error calls the caller's original
\* callback exactly once, with the same (err, msg), and leaves the
\* Connection's partition usage as it was.
C10_FailedDeliveryOnlyCallsOriginal ==
  [][(dlv.pc = "idle" /\ dlv'.pc # "idle"
        /\ Truthy(dlv'.err) /\ IsCallable(Original(dlv'.w)))
     => /\ topicPartitions' = topicPartitions
        /\ dlv'.pc = "done"
        /\ ~dlv'.raised
        /\ dlv'.calls = <<[cb |-> Original(dlv'.w), err |-> dlv'.err, msg |-> dlv'.msg]>>]_vars

\* a failed delivery was reported for a partition not yet in the usage,
\* and the original callback has been called
C10_Witness ==
  /\ dlv.pc = "done" /\ dlv.err = KafkaError
  /\ Len(dlv.calls) = 1 /\ dlv.calls[1].cb = Cb1
  /\ <<dlv.msg.topic, dlv.msg.partition>> \notin topicPartitions

\* the wrapper is running on a report without error, for a callable original
SuccessfulDelivery == ~Truthy(dlv.err) /\ IsCallable(Original(dlv.w))

\* C11: a wrapper called with a null error has (msg.topic, msg.partition) in
\* the Connection's partition usage before the original callback is called,
\* and then calls the original callback exactly once with the same (err, msg).
C11_UsageRecordedBeforeOriginal ==
  /\ (dlv.pc \in {"call_original", "done"} /\ SuccessfulDelivery)
       => <<dlv.msg.topic, dlv.msg.partition>> \in topicPartitions
  /\ (dlv.pc = "call_original" /\ SuccessfulDelivery) => dlv.calls = <<>>
  /\ (dlv.pc = "done" /\ SuccessfulDelivery)
       => /\ ~dlv.raised
          /\ dlv.calls = <<[cb |-> Original(dlv.w), err |-> dlv.err, msg |-> dlv.msg]>>

\* a successful delivery on partition 1 has reached the original callback
C11_Witness ==
  /\ dlv.pc = "done" /\ IsNone(dlv.err)
  /\ dlv.msg.partition = MaxPartition
  /\ Len(dlv.calls) = 1 /\ dlv.calls[1].cb = Cb1

\* the threads that completed a learning submission and have line 143 ahead
IncrementPending == {t \in Threads : pc[t] \in {"incr_read", "incr_write"}}

\* C12: under any interleaving of concurrent produce calls,
\* learning_factor_counter equals its initial value 0 plus the number of
\* learning submissions that succeeded and whose increment has been made:
\* no increment is lost or duplicated, and a failed submission adds none.
C12_CounterCountsSuccesses ==
  counter = learned - Cardinality(IncrementPending)

\* C13: whatever the number of create_task calls, their threads and their
\* interleaving, at most one background worker thread is ever started.
C13_AtMostOneWorkerThread == Cardinality(workers) <= 1

\* C20: once TaskUtil._event_loop is set it is never replaced by another
\* loop, and every create_task call that schedules its task afterwards
\* schedules it on that loop, whatever the loop's running state and the
\* calling thread.
C20_RememberedLoopNeverReplaced ==
  [][eventLoop # NoLoop
       => /\ eventLoop' = eventLoop
          /\ \A c \in Threads :
               (tpc[c] # "done" /\ tpc'[c] = "done") => scheduled'[c] = eventLoop]_vars

\* the pair a produce call records: its topic and its explicit partition
CallPair(c) == <<Arg(c.args, topic_idx).s, ResolvePartition(c).n>>
\* thread t enters produce in this step, with an explicit partition
RecordsOnProduce(t) ==
  /\ pc[t] = "idle" /\ pc'[t] # "idle"
  /\ conn /\ Len(call'[t].args) > topic_idx /\ HasPartition(call'[t])
\* a wrapper is called in this step with a null error
RecordsOnDelivery == dlv.pc = "idle" /\ dlv'.pc # "idle" /\ ~Truthy(dlv'.err)

\* C14: under any interleaving of produce calls and delivery callbacks the
\* partition usage only grows: no step removes a recorded (topic, partition)
\* pair, a step that records a pair leaves it in the usage, and recording a
\* pair that is already present leaves the usage unchanged.
C14_PartitionUsageOnlyGrows ==
  [][/\ topicPartitions \subseteq topicPartitions'
     /\ \A t \in Threads :
          RecordsOnProduce(t)
          => /\ CallPair(call'[t]) \in topicPartitions'
             /\ CallPair(call'[t]) \in topicPartitions => topicPartitions' = topicPartitions
     /\ RecordsOnDelivery
          => /\ <<dlv'.msg.topic, dlv'.msg.partition>> \in topicPartitions'
             /\ <<dlv'.msg.topic, dlv'.msg.partition>> \in topicPartitions
                  => topicPartitions' = topicPartitions]_vars

\* both partitions are recorded, one by a delivery report that came in
\* while a produce call was waiting at its learning submission
C14_Witness ==
  /\ Cardinality(topicPartitions) = MaxPartition + 1
  /\ dlv.pc = "call_original" /\ IsNone(dlv.err)
  /\ pc[1] = "learn_wait" /\ HasPartition(call[1])

\* C15: a produce call that bypasses because the Connection is not ready or
\* the value does not convert to JSON only invokes the producer handler: it
\* leaves the partition usage, the learning counter and the registration
\* flag as they were and makes no learning or registration submission.
C15_BypassIsNoOp ==
  [][\A t \in Threads :
       (pc[t] = "idle" /\ pc'[t] # "idle" /\ path'[t] \in {"not_ready", "not_json"})
       => /\ handled'[t] = <<call'[t]>>
          /\ pc'[t] = "done"
          /\ sub'[t] = NoSub
          /\ <<counter, reqSent, regReqs, learned>>' = <<counter, reqSent, regReqs, learned>>
          /\ topicPartitions' = topicPartitions]_vars

\* the set of the entries of a list
Entries(keys) == {keys[i] : i \in 1..Len(keys)}
\* the keys the claim fills in: producer or shared keys that have a default
FilledKeys ==
  {k \in Entries(ProducerConfigKeys) \cup Entries(ProducerAndConsumerConfigKeys) :
     k \in DOMAIN Defaults}

\* C16: enrich_producer_config(config) returns a new mapping that agrees
\* with config on every key of config, holds Defaults[k] for every producer
\* or shared key k that config lacks and that has a default, holds no other
\* key, and leaves the input mapping as it was.
C16_EnrichFillsDefaultsOnly ==
  cfgIn.called
  => /\ cfgOut.fresh
     /\ cfgOut.input = cfgIn.map
     /\ \A k \in DOMAIN cfgIn.map : k \in DOMAIN cfgOut.map /\ cfgOut.map[k] = cfgIn.map[k]
     /\ \A k \in FilledKeys \ DOMAIN cfgIn.map :
          k \in DOMAIN cfgOut.map /\ cfgOut.map[k] = Defaults[k]
     /\ DOMAIN cfgOut.map = (DOMAIN cfgIn.map) \cup FilledKeys

\* a configuration with its own client.id, a consumer key and an unknown
\* key, without transactional.id, has been enriched
C16_Witness ==
  /\ cfgIn.called
  /\ DOMAIN cfgIn.map = {"client.id", "group.id", "my.custom.key"}
  /\ cfgIn.map["client.id"] = Str("app")
  /\ cfgOut.map["client.id"] = Str("app")
  /\ cfgOut.map["transaction.timeout.ms"] = IntVal(60000)
  /\ "socket.send.buffer.bytes" \notin DOMAIN cfgOut.map

\* compress behaves as the claim says on the call recorded in cmp
CompressAsClaimed ==
  cmp.called
  => /\ (~NotSet(cmp.type) /\ cmp.type # Str("zstd")) => cmp.raised
     /\ NotSet(cmp.type) => (~cmp.raised /\ cmp.result = cmp.data)

\* C17: compress raises to its caller for every non-empty compression type
\* other than "zstd" and returns the data unchanged for an empty or None
\* type, and no other operation of the interceptor lets a failure of its
\* own reach its caller: no produce call ends with an exception.
C17_OnlyCompressRaises ==
  /\ CompressAsClaimed
  /\ \A t \in Threads : outcome[t] \in {"none", "returned"}

\* C18: a learning submission is made only while learning_factor_counter
\* is strictly below learning_factor, so that a sequential run from counter
\* 0 makes no more than learning_factor successful submissions, and a call
\* made once the counter equals learning_factor goes to the registration
\* request instead of a learning message.
C18_LearningOnlyBelowFactor ==
  /\ \A t \in Threads : pc[t] = "learn_wait" => counter < LearningFactor
  /\ \A t \in Threads : pc[t] \in {"check_sent", "register"} => counter >= LearningFactor
  /\ learned <= LearningFactor

\* C19: on a ready Connection whose learning submissions succeed, when
\* produce keeps being called with values that convert to JSON, a
\* schema-registration request is eventually issued.
C19_RegistrationEventuallyIssued == ready ~> (regReqs > 0)

\* the same, for the runs whose calls reach the learner again and again
LearningEndsOnActivePath == ([]<>(path[1] = "active")) => <>(regReqs > 0)

\* field name, slot idx, of call h holds v in the representation call c
\* passed it in, and in that one only; passed neither way, it is in neither
WrittenBackWhereSupplied(c, h, idx, name, v) ==
  /\ Len(h.args) = Len(c.args)
  /\ PassedPositionally(c, idx) => Arg(h.args, idx) = v
  /\ PassedByName(h, name) = (PassedByName(c, name) /\ ~PassedPositionally(c, idx))
  /\ PassedByName(h, name) => h.kwargs[name] = v

\* C21: on the active path the rewritten value and the wrapping callback are
\* written back only where the caller supplied the field: a positional
\* field is replaced in its slot, a named field under its name, and a value
\* or an on_delivery the caller passed neither way is not introduced into
\* the handler's arguments.
C21_WrittenBackWhereSupplied ==
  \A t \in Threads :
    (path[t] = "active" /\ HandlerInvoked(t))
    => /\ WrittenBackWhereSupplied(call[t], Handed(t), value_idx, "value",
                                   SerializedMsg(call[t]))
       /\ WrittenBackWhereSupplied(call[t], Handed(t), on_delivery_idx, "on_delivery",
                                   Wrapper(OriginalOnDeliveryCb(call[t].args,
                                                                call[t].kwargs)))

\* an active call that passed no value and its callback by name reached the
\* handler with the wrapper under the name and still without a value
C21_Witness ==
  /\ ActiveDone(1) /\ HandlerInvoked(1)
  /\ ~PassedPositionally(call[1], value_idx) /\ ~PassedByName(call[1], "value")
  /\ KwGet(call[1].kwargs, "on_delivery") = Cb1
  /\ KwGet(Handed(1).kwargs, "on_delivery") = Wrapper(Cb1)
  /\ ~PassedByName(Handed(1), "value")

\* the caller supplied a partition, in slot 3 or by name
SuppliesPartition(c) ==
  PassedPositionally(c, partition_idx) \/ PassedByName(c, "partition")
\* the (topic, partition) the caller supplied
SuppliedPair(c) ==
  <<ClaimedTopic(c).s,
    (IF PassedPositionally(c, partition_idx) THEN Arg(c.args, partition_idx)
     ELSE KwGet(c.kwargs, "partition")).n>>

\* C22: on the active path a produce call that supplies a partition, in
\* slot 3 or by name, has (topic, partition) in the partition usage by the
\* time the producer handler is invoked, and no step of a produce call that
\* supplies no partition changes the partition usage.
C22_PartitionRecordedBeforeHandler ==
  [][\A t \in Threads :
       /\ (path'[t] = "active" /\ Len(handled'[t]) > 0 /\ SuppliesPartition(call'[t]))
            => SuppliedPair(call'[t]) \in topicPartitions'
       /\ (pc'[t] # pc[t] /\ path'[t] = "active" /\ ~SuppliesPartition(call'[t]))
            => topicPartitions' = topicPartitions]_vars

\* an active call with partition=1 by name has reached the handler
C22_Witness ==
  /\ ActiveDone(1) /\ HandlerInvoked(1)
  /\ PassedByName(call[1], "partition")
  /\ SuppliedPair(call[1]) = <<"orders", MaxPartition>>
  /\ SuppliedPair(call[1]) \in topicPartitions

\* the on_delivery of a call: slot 4, or else the named entry, or else None
OnDeliveryOf(c) ==
  IF PassedPositionally(c, on_delivery_idx) THEN Arg(c.args, on_delivery_idx)
  ELSE KwGet(c.kwargs, "on_delivery")

\* C23: whenever a wrapper installed by produce is invoked, the original
\* callback it delegates to is a callable, and an active call whose
\* on_delivery slot or named entry holds None reaches the handler with
\* on_delivery still None.
C23_WrapperOnlyOverCallable ==
  /\ dlv.pc # "idle" => IsCallable(Original(dlv.w))
  /\ \A w \in inflight : IsCallable(Original(w))
  /\ \A t \in Threads :
       (path[t] = "active" /\ HandlerInvoked(t) /\ IsNone(OnDeliveryOf(call[t])))
       => IsNone(OnDeliveryOf(Handed(t)))

\* C24: the learning phase comes strictly before the registration, under
\* every interleaving of concurrent produce calls: learning_factor_counter
\* never decreases, a registration request is issued only with the counter
\* past learning_factor, and no learning submission is started once a
\* registration request has been issued.
C24_LearningPrecedesRegistration ==
  [][/\ counter' >= counter
     /\ regReqs' > regReqs => counter > LearningFactor
     /\ \A t \in Threads :
          (pc[t] = "serialize" /\ pc'[t] = "learn_wait") => regReqs = 0]_vars

====
